---- MODULE Spec2Model ----
(***************************************************************************)
(* Model of the Email Domain Validator (email_checker.py): EmailVerifier   *)
(* with its domain cache, cache lock and the per-call semaphore of         *)
(* check_list, run by asyncio's cooperative scheduler.                     *)
(*                                                                         *)
(* Atomicity: a task runs without interruption from one suspension point   *)
(* to the next.  The only awaits that suspend are the semaphore acquire    *)
(* when no slot is free and the resolver query; the cache lock is never    *)
(* held across an await, so its acquire never suspends.                    *)
(*                                                                         *)
(* handle_check of the HTTP front end is modelled around one check_list    *)
(* call.  TextSplitter.split and TelegramSender.send_text_safe of the      *)
(* Telegram File Sender (file_sender.py) have their own variables and      *)
(* specifications.                                                         *)
(*                                                                         *)
(* Strings are sequences of one-character strings.                         *)
(***************************************************************************)
EXTENDS Integers, Sequences, FiniteSets, TLC

\* ------------------------------------------------------------------ bounds
MaxCap == 2
MaxBatch == 2
MaxInput == 3
MaxOverlap == 2
MaxLen == 5
MaxCalls == 2
MaxText == 4
MaxChunk == 3

\* --------------------------------------------------------------- constants
MSG_VALID == "domain valid"
MSG_NO_DOMAIN == "domain missing"
MSG_NO_MX == "no MX records"
MSG_INVALID_FORMAT == "invalid email format"
MSG_TIMEOUT == "timeout"

DomainStatuses == {MSG_VALID, MSG_NO_DOMAIN, MSG_NO_MX, MSG_TIMEOUT}

\* What one resolver.resolve(encoded_domain, "MX") await can end with.
ResolverAnswers ==
    {"records", "empty", "NXDOMAIN", "NoAnswer", "NoNameservers", "Timeout", "OtherError"}

NoAnswerYet == "none"
IdnaError == "UnicodeError"
Cancelled == "CancelledError"
\* what IdnaEncode yields when encode("idna") raises UnicodeError
IdnaFailure == <<"UnicodeError">>
NoStatus == "none"
Free == "free"

\* ------------------------------------------------------------ pure helpers
Alphabet == {"a", "@", ".", " "}

IsSpace(c) == c = " "

\* str.lower() on one character
LowerCharKeepsCase(c) == c

LowerChar(c) == IF c = "X" THEN "x" ELSE IF c = "B" THEN "b" ELSE c

Lower(s) == [i \in 1..Len(s) |-> LowerChar(s[i])]

RECURSIVE LStrip(_)
LStrip(s) == IF s # <<>> /\ IsSpace(Head(s)) THEN LStrip(Tail(s)) ELSE s

RECURSIVE RStrip(_)
RStrip(s) ==
    IF s # <<>> /\ IsSpace(s[Len(s)]) THEN RStrip(SubSeq(s, 1, Len(s) - 1)) ELSE s

\* str.strip()
Strip(s) == RStrip(LStrip(s))

\* the character class [^@\s]
RegexClass(c) == c # "@" /\ ~IsSpace(c)

\* one or more characters of [^@\s] at positions lo..hi
ClassRun(s, lo, hi) == lo <= hi /\ \A k \in lo..hi : RegexClass(s[k])

\* re.compile(r"^[^@\s]+@[^@\s]+\.[^@\s]+$").match(s)
EmailRegexMatchNoDot(s) ==
    \E i \in 1..Len(s) :
        /\ s[i] = "@"
        /\ ClassRun(s, 1, i - 1)
        /\ ClassRun(s, i + 1, Len(s))

EmailRegexMatch(s) ==
    \E i \in 1..Len(s) : \E j \in 1..Len(s) :
        /\ s[i] = "@"
        /\ s[j] = "."
        /\ ClassRun(s, 1, i - 1)
        /\ ClassRun(s, i + 1, j - 1)
        /\ ClassRun(s, j + 1, Len(s))

\* positions of the "@" separators of s
AtPositions(s) == {k \in 1..Len(s) : s[k] = "@"}

\* the least element of a non-empty set of positions
MinPos(S) == CHOOSE k \in S : \A m \in S : k <= m

\* the last position of the second piece of s.split("@")
SecondPieceEnd(s) ==
    IF Cardinality(AtPositions(s)) >= 2
    THEN MinPos(AtPositions(s) \ {MinPos(AtPositions(s))}) - 1
    ELSE Len(s)

\* email.split("@")[1].lower(), "" on IndexError
ExtractDomain(email) ==
    IF AtPositions(email) = {} THEN <<>>
    ELSE Lower(SubSeq(email, MinPos(AtPositions(email)) + 1, SecondPieceEnd(email)))

\* positions of the "." separators of d
DotPositions(d) == {k \in 1..Len(d) : d[k] = "."}

\* domain.encode("idna") on an ASCII name: every label but the last must be
\* non-empty (UnicodeError "label empty or too long"); the name is returned
\* unchanged otherwise.  Labels of 64 characters or more are beyond MaxLen.
IdnaEncodeNeverFails(d) == d

IdnaEncode(d) ==
    IF \E k \in DotPositions(d) : k = 1 \/ d[k - 1] = "."
    THEN IdnaFailure
    ELSE d

\* _check_dns_mx after the await: the status for one resolver answer
CheckDnsMxLeaky(answer) ==
    CASE answer = "records" -> MSG_VALID
      [] answer = "empty" -> MSG_NO_MX
      [] answer = "NXDOMAIN" -> MSG_NO_DOMAIN
      [] answer \in {"NoAnswer", "NoNameservers"} -> MSG_NO_MX
      [] answer = "Timeout" -> MSG_TIMEOUT
      [] OTHER -> "raised"

CheckDnsMx(answer) ==
    CASE answer = "records" -> MSG_VALID
      [] answer = "empty" -> MSG_NO_MX
      [] answer = "NXDOMAIN" -> MSG_NO_DOMAIN
      [] answer \in {"NoAnswer", "NoNameservers"} -> MSG_NO_MX
      [] answer = "Timeout" -> MSG_TIMEOUT
      [] OTHER -> MSG_NO_MX

\* self._domain_cache[domain] = status
CachePutNoTimeout(c, d, s) ==
    IF s = MSG_TIMEOUT THEN c
    ELSE [k \in DOMAIN c \cup {d} |-> IF k = d THEN s ELSE c[k]]

CachePut(c, d, s) == [k \in DOMAIN c \cup {d} |-> IF k = d THEN s ELSE c[k]]

EmptyCache == [k \in {} |-> NoStatus]

\* [email for email in emails if email]
RECURSIVE Scheduled(_)
Scheduled(es) ==
    IF es = <<>> THEN <<>>
    ELSE IF Head(es) = <<>> THEN Scheduled(Tail(es))
    ELSE <<Head(es)>> \o Scheduled(Tail(es))


\* ------------------------------------------------------------------ inputs
ADDR_EMPTY == <<>>
ADDR_A_X == <<"a", "@", "x", ".", "c">>
ADDR_B_X == <<" ", "b", "@", "X", ".", "c">>
ADDR_A_Y == <<"a", "@", "y", ".", "c">>
ADDR_NO_DOT == <<"a", "@", "x", "c">>
ADDR_BAD_IDNA == <<"a", "@", ".", ".", "c">>

BatchPool == {ADDR_EMPTY, ADDR_A_X, ADDR_B_X, ADDR_A_Y, ADDR_NO_DOT, ADDR_BAD_IDNA}

SeqsUpTo(S, n) == UNION {[1..k -> S] : k \in 0..n}

\* argument lists of at most MaxInput strings that schedule at most MaxBatch tasks
BatchInputs == {es \in SeqsUpTo(BatchPool, MaxInput) : Len(Scheduled(es)) <= MaxBatch}

\* what two overlapping requests ask for
OverlapPool == {ADDR_A_X, ADDR_A_Y}

OverlapInputs == SeqsUpTo(OverlapPool, MaxOverlap)

\* the resolver answers the batches get: one per status the resolver can give
\* but MSG_NO_DOMAIN
BatchAnswers == {"records", "Timeout", "OtherError"}

DirectPool == SeqsUpTo(Alphabet, MaxLen) \cup BatchPool

\* the other addresses a later direct call may pass
RepeatPool == {ADDR_A_X, ADDR_B_X, ADDR_NO_DOT}

\* an item of the posted JSON list that is not a string: a number other than 0
JSON_NUMBER == <<"number">>

\* isinstance(x, str): only a string has the strip() that check_email calls
IsStr(x) == x # JSON_NUMBER

\* the items of a posted JSON list
ApiPool == {ADDR_EMPTY, ADDR_A_X, ADDR_B_X, ADDR_NO_DOT, JSON_NUMBER}

ApiInputs == {es \in SeqsUpTo(ApiPool, MaxInput) : Len(Scheduled(es)) <= MaxBatch}

\* what request.json() gives when the body is JSON but not a list
NonListValues == {"object", "string", "number", "null"}

\* what request.json() raises: json.JSONDecodeError for a body that is not
\* JSON, another exception when the body cannot be read or decoded
JsonErrors == {"JSONDecodeError", "OtherError"}

NoRequest == "none"
NoResponse == [status |-> 0]

\* the texts TextSplitter.split is given: letters, spaces and newlines
NL == "\n"

TextAlphabet == {"a", " ", NL}

SplitTexts == SeqsUpTo(TextAlphabet, MaxText)

\* the texts main passes to send_text_safe: "if content"
SendTexts == SplitTexts \ {<<>>}

\* what one bot.send_message await can end with: the message is sent,
\* TelegramRetryAfter is raised, or another exception is
SendOutcomes == {"ok", "TelegramRetryAfter", "Error"}

\* the overlapping check_list calls on the one verifier of the application
Batches == {"req1", "req2"}

\* ------------------------------------------------------------------- state
VARIABLES
    CONCURRENCY_LIMIT,  \* the cap of every semaphore
    domain_cache,       \* self._domain_cache
    cache_lock,         \* self._cache_lock: Free or the holder
    emails,             \* emails[b]: the argument of check_list call b
    tasks,              \* tasks[b][i]: Parsed(address) of the i-th task of call b
    listState,          \* "idle", "running", "returned" or "cancelled"
    semaphore,          \* semaphore[b]: free slots of call b's semaphore
    pc,                 \* pc[b][i]: "wait", "resolving", "done", "cancelled"
    status,             \* status[b][i]: CheckResult.status of task i
    answer,             \* answer[b][i]: what the task's resolver query ended with
    finished,           \* finished[b]: task indices in completion order
    results,            \* results[b]: what gather returned
    cachedAtStart,      \* cachedAtStart[b]: cached domains when b started
    dpc,                \* the direct caller: "idle" or "resolving"
    dcur,               \* the direct check_email call in progress
    log,                \* the completed direct check_email calls, in order
    request,            \* request[b]: what handle_check got from request.json()
    response,           \* response[b]: what handle_check answered
    split_pc,           \* TextSplitter.split: "idle", "loop" or "returned"
    split_arg,          \* the text split was called with
    text,               \* split's variable text: what is left to cut
    chunk_size,         \* split's parameter chunk_size
    chunks,             \* split's list chunks
    send_pc,            \* send_text_safe: "idle", "sending", "resending", "returned", "raised"
    chunk_index,        \* the loop variable i of send_text_safe
    attempts            \* the bot.send_message calls made, in order

engineVars == <<CONCURRENCY_LIMIT, domain_cache, cache_lock>>
batchVars == <<emails, tasks, listState, semaphore, pc, status, answer, finished, results, cachedAtStart>>
directVars == <<dpc, dcur, log>>
handlerVars == <<request, response>>
splitVars == <<split_pc, split_arg, text, chunk_size, chunks>>
sendVars == <<send_pc, chunk_index, attempts>>
fileSenderVars == <<splitVars, sendVars>>
vars == <<engineVars, batchVars, directVars, handlerVars, fileSenderVars>>

\* --------------------------------------------------------------- check_email
\* what check_email and _check_dns_mx compute from their argument alone
\* (lines 105, 108, 111 and 80): the trimmed address, the regex verdict, the
\* extracted domain and its IDNA encoding.  A task carries them from its
\* creation, so that a step only looks them up.
Parsed(raw) ==
    [raw |-> raw,
     email |-> Strip(raw),
     matches |-> EmailRegexMatch(Strip(raw)),
     domain |-> ExtractDomain(Strip(raw)),
     encoded |-> IdnaEncode(ExtractDomain(Strip(raw)))]

\* check_email from its start to its first suspension (the resolver await)
\* or, when it does not suspend, to its return.  locks, reads and writes
\* count the lock acquisitions and the cache accesses made so far.
CheckEmailStart(p, c) ==
    LET base == [email |-> p.email, domain |-> p.domain, pending |-> FALSE,
                 status |-> NoStatus, cache |-> c,
                 answer |-> NoAnswerYet, locks |-> 0, reads |-> 0, writes |-> 0]
    IN  IF ~p.matches
        THEN [base EXCEPT !.status = MSG_INVALID_FORMAT]
        ELSE IF p.domain \in DOMAIN c
        THEN [base EXCEPT !.status = c[p.domain], !.locks = 1, !.reads = 1]
        ELSE IF p.encoded = IdnaFailure
        THEN [base EXCEPT !.status = MSG_NO_DOMAIN,
                          !.cache = CachePut(c, p.domain, MSG_NO_DOMAIN),
                          !.answer = IdnaError,
                          !.locks = 2, !.reads = 1, !.writes = 1]
        ELSE [base EXCEPT !.pending = TRUE, !.locks = 1, !.reads = 1]

\* check_email from the resolver's answer to its return
CheckEmailResume(cur, ans, c) ==
    LET st == CheckDnsMx(ans)
    IN  [cur EXCEPT !.pending = FALSE, !.status = st,
                    !.cache = CachePut(c, cur.domain, st),
                    !.answer = ans,
                    !.locks = cur.locks + 1, !.writes = cur.writes + 1]

\* ---------------------------------------------------------------- check_list
Tasks(b) == 1..Len(pc[b])

TaskEmail(b, i) == tasks[b][i].raw

\* semaphore = asyncio.Semaphore(CONCURRENCY_LIMIT)
OneSlotShort == CONCURRENCY_LIMIT - 1

NewSemaphore == CONCURRENCY_LIMIT

\* the tasks gather started run while check_list awaits them, and go on
\* running when one of them has raised: gather does not cancel the others
TasksAlive(b) == listState[b] \in {"running", "failed"}

\* self._cache_lock while task t awaits _check_dns_mx
LockKeptAcrossQuery(t) == t

LockAcrossQuery(t) == Free

\* Semaphore.acquire returns without waiting
SlotFreeAlways(b) == TRUE

SlotFree(b) == semaphore[b] > 0

\* check_list up to "await asyncio.gather(*tasks)", whoever the caller is
CheckListBegin(b, inputs) ==
    /\ listState[b] = "idle"
    /\ \E es \in inputs :
        /\ emails' = [emails EXCEPT ![b] = es]
        /\ tasks' = [tasks EXCEPT ![b] =
                        [i \in 1..Len(Scheduled(es)) |-> Parsed(Scheduled(es)[i])]]
        /\ pc' = [pc EXCEPT ![b] = [i \in 1..Len(Scheduled(es)) |-> "wait"]]
        /\ status' = [status EXCEPT ![b] = [i \in 1..Len(Scheduled(es)) |-> NoStatus]]
        /\ answer' = [answer EXCEPT ![b] = [i \in 1..Len(Scheduled(es)) |-> NoAnswerYet]]
    /\ listState' = [listState EXCEPT ![b] = "running"]
    /\ semaphore' = [semaphore EXCEPT ![b] = NewSemaphore]
    /\ cachedAtStart' = [cachedAtStart EXCEPT ![b] = DOMAIN domain_cache]
    /\ UNCHANGED <<engineVars, finished, results, directVars, fileSenderVars>>

\* results = await verifier.check_list(raw_emails), up to the gather await
StartCheckList(b, inputs) ==
    /\ CheckListBegin(b, inputs)
    /\ UNCHANGED handlerVars

\* sem_task: a slot is acquired and check_email runs to the resolver await,
\* or to its return (which releases the slot) when it does not get there
SemTaskEnter(b, i) ==
    /\ TasksAlive(b)
    /\ i \in Tasks(b)
    /\ pc[b][i] = "wait"
    /\ IsStr(tasks[b][i].raw)
    /\ SlotFree(b)
    /\ cache_lock = Free
    /\ LET r == CheckEmailStart(tasks[b][i], domain_cache)
       IN  /\ domain_cache' = r.cache
           /\ cache_lock' = IF r.pending THEN LockAcrossQuery(<<b, i>>) ELSE Free
           /\ status' = [status EXCEPT ![b][i] = r.status]
           /\ answer' = [answer EXCEPT ![b][i] = r.answer]
           /\ IF r.pending
              THEN /\ pc' = [pc EXCEPT ![b][i] = "resolving"]
                   /\ semaphore' = [semaphore EXCEPT ![b] = @ - 1]
                   /\ UNCHANGED finished
              ELSE /\ pc' = [pc EXCEPT ![b][i] = "done"]
                   /\ finished' = [finished EXCEPT ![b] = Append(@, i)]
                   /\ UNCHANGED semaphore
    /\ UNCHANGED <<CONCURRENCY_LIMIT, emails, tasks, listState, results,
                   cachedAtStart, directVars, handlerVars, fileSenderVars>>

\* the slot count after "async with semaphore" is left
KeepSlot(n) == n

ReleaseSlot(n) == n + 1

\* the resolver answers: _check_dns_mx returns, check_email writes the cache
\* and returns, sem_task releases its slot
ResolverReturn(b, i, ans) ==
    /\ TasksAlive(b)
    /\ i \in Tasks(b)
    /\ pc[b][i] = "resolving"
    /\ cache_lock = Free
    /\ LET r == CheckEmailResume(CheckEmailStart(tasks[b][i], EmptyCache), ans,
                                 domain_cache)
       IN  /\ domain_cache' = r.cache
           /\ status' = [status EXCEPT ![b][i] = r.status]
           /\ answer' = [answer EXCEPT ![b][i] = r.answer]
    /\ pc' = [pc EXCEPT ![b][i] = "done"]
    /\ finished' = [finished EXCEPT ![b] = Append(@, i)]
    /\ semaphore' = [semaphore EXCEPT ![b] = ReleaseSlot(@)]
    /\ UNCHANGED <<CONCURRENCY_LIMIT, cache_lock, emails, tasks, listState, results,
                   cachedAtStart, directVars, handlerVars, fileSenderVars>>

\* the list asyncio.gather builds: one CheckResult per task
ResultOf(b, i) == [email |-> tasks[b][i].email, status |-> status[b][i]]

GatherInCompletionOrder(b) == [k \in 1..Len(finished[b]) |-> ResultOf(b, finished[b][k])]

GatherResults(b) == [i \in 1..Len(pc[b]) |-> ResultOf(b, i)]

\* asyncio.gather returns once every task is done, and check_list with it
CheckListEnd(b) ==
    /\ listState[b] = "running"
    /\ \A i \in Tasks(b) : pc[b][i] = "done"
    /\ results' = [results EXCEPT ![b] = GatherResults(b)]
    /\ listState' = [listState EXCEPT ![b] = "returned"]
    /\ UNCHANGED <<engineVars, emails, tasks, semaphore, pc, status, answer, finished,
                   cachedAtStart, directVars, fileSenderVars>>

\* check_list returns to a caller that is not handle_check
GatherReturn(b) ==
    /\ CheckListEnd(b)
    /\ UNCHANGED handlerVars

\* sem_task of an item that is not a string: check_email raises
\* AttributeError at email.strip(), and the slot is given back
SemTaskRaise(b, i) ==
    /\ TasksAlive(b)
    /\ i \in Tasks(b)
    /\ pc[b][i] = "wait"
    /\ ~IsStr(tasks[b][i].raw)
    /\ SlotFree(b)
    /\ pc' = [pc EXCEPT ![b][i] = "raised"]
    /\ UNCHANGED <<engineVars, emails, tasks, listState, semaphore, status, answer,
                   finished, results, cachedAtStart, directVars, handlerVars,
                   fileSenderVars>>

\* slots given back when the tasks of b that hold one are cancelled
SlotsKeptOnCancel(b) == semaphore[b]

SlotsAfterCancel(b) ==
    semaphore[b] + Cardinality({i \in Tasks(b) : pc[b][i] = "resolving"})

\* the awaiting caller is cancelled: gather cancels every task that is not
\* done; CancelledError leaves "async with semaphore" in each of them
Cancel(b) ==
    /\ listState[b] = "running"
    /\ listState' = [listState EXCEPT ![b] = "cancelled"]
    /\ pc' = [pc EXCEPT ![b] =
                 [i \in Tasks(b) |-> IF pc[b][i] \in {"done", "raised"} THEN pc[b][i]
                                     ELSE "cancelled"]]
    /\ answer' = [answer EXCEPT ![b] =
                     [i \in Tasks(b) |-> IF pc[b][i] = "resolving" THEN Cancelled
                                         ELSE answer[b][i]]]
    /\ semaphore' = [semaphore EXCEPT ![b] = SlotsAfterCancel(b)]
    /\ UNCHANGED <<engineVars, emails, tasks, status, finished, results,
                   cachedAtStart, directVars, handlerVars, fileSenderVars>>

\* --------------------------------------------------------------- handle_check
\* the index of the last result for address e
LastFor(rs, e) ==
    CHOOSE k \in DOMAIN rs : rs[k].email = e /\ \A m \in DOMAIN rs : rs[m].email = e => m <= k

\* {res.email: res.status for res in results}
ResponseData(rs) ==
    [e \in {rs[k].email : k \in DOMAIN rs} |-> rs[LastFor(rs, e)].status]

\* the except clauses of handle_check
ErrorResponseAlways500(exc) == [status |-> 500, error |-> exc]

ErrorResponse(exc) ==
    IF exc = "JSONDecodeError" THEN [status |-> 400, error |-> "Invalid JSON"]
    ELSE [status |-> 500, error |-> exc]

\* handle_check for a body that request.json() rejects or that is not a list
HandleCheckReject(b, json) ==
    /\ request[b] = NoRequest
    /\ listState[b] = "idle"
    /\ request' = [request EXCEPT ![b] = json]
    /\ response' = [response EXCEPT ![b] =
                       IF json \in JsonErrors THEN ErrorResponse(json)
                       ELSE [status |-> 400, error |-> "Expected a JSON list of strings"]]
    /\ UNCHANGED <<engineVars, batchVars, directVars, fileSenderVars>>

\* handle_check for a list, up to the gather await inside check_list
HandleCheckList(b, inputs) ==
    /\ request[b] = NoRequest
    /\ CheckListBegin(b, inputs)
    /\ request' = [request EXCEPT ![b] = "list"]
    /\ UNCHANGED response

\* check_list returns to handle_check, which answers with the mapping
HandleCheckRespond(b) ==
    /\ request[b] = "list"
    /\ CheckListEnd(b)
    /\ response' = [response EXCEPT ![b] = [status |-> 200, data |-> ResponseData(GatherResults(b))]]
    /\ UNCHANGED request

\* a task has raised: gather raises in check_list, handle_check answers
HandleCheckFail(b) ==
    /\ request[b] = "list"
    /\ listState[b] = "running"
    /\ \E i \in Tasks(b) : pc[b][i] = "raised"
    /\ listState' = [listState EXCEPT ![b] = "failed"]
    /\ response' = [response EXCEPT ![b] = ErrorResponse("AttributeError")]
    /\ UNCHANGED <<engineVars, emails, tasks, semaphore, pc, status, answer, finished,
                   results, cachedAtStart, request, directVars, fileSenderVars>>

\* ------------------------------------------------- check_email called directly
\* what the log keeps of one completed check_email call
LogEntry(raw, r) ==
    [raw |-> raw, email |-> r.email, status |-> r.status, answer |-> r.answer,
     locks |-> r.locks, reads |-> r.reads, writes |-> r.writes]

\* the addresses a caller of check_email passes: any string first, then one
\* it passed before or one of RepeatPool
DirectInputs ==
    IF log = <<>> THEN DirectPool
    ELSE RepeatPool \cup {log[k].raw : k \in DOMAIN log}

\* await verifier.check_email(raw), to the resolver await or to its return
DirectCall(raw) ==
    /\ dpc = "idle"
    /\ Len(log) < MaxCalls
    /\ cache_lock = Free
    /\ LET r == CheckEmailStart(Parsed(raw), domain_cache)
       IN  /\ domain_cache' = r.cache
           /\ cache_lock' = IF r.pending THEN LockAcrossQuery("direct") ELSE Free
           /\ IF r.pending
              THEN /\ dpc' = "resolving"
                   /\ dcur' = <<raw, r>>
                   /\ UNCHANGED log
              ELSE /\ log' = Append(log, LogEntry(raw, r))
                   /\ UNCHANGED <<dpc, dcur>>
    /\ UNCHANGED <<CONCURRENCY_LIMIT, batchVars, handlerVars, fileSenderVars>>

\* the resolver answers the direct call, which runs to its return
DirectResolverReturn(ans) ==
    /\ dpc = "resolving"
    /\ cache_lock = Free
    /\ LET r == CheckEmailResume(dcur[2], ans, domain_cache)
       IN  /\ domain_cache' = r.cache
           /\ log' = Append(log, LogEntry(dcur[1], r))
    /\ dpc' = "idle"
    /\ dcur' = <<>>
    /\ UNCHANGED <<CONCURRENCY_LIMIT, cache_lock, batchVars, handlerVars, fileSenderVars>>

\* ------------------------------------------------- TextSplitter.split
\* s.rfind(c): the last index of c in s, counted from 0, or -1
RFind(s, c) ==
    IF \A k \in 1..Len(s) : s[k] # c THEN -1
    ELSE (CHOOSE k \in 1..Len(s) : s[k] = c /\ \A m \in (k + 1)..Len(s) : s[m] # c) - 1

\* s[:n]
Prefix(s, n) == SubSeq(s, 1, IF n < Len(s) THEN n ELSE Len(s))

\* s[n:]
Suffix(s, n) == SubSeq(s, n + 1, Len(s))

\* limit: after the last newline of chunk, else after its last space, else
\* a hard cut at chunk_size
SplitLimitOverrun(chunk, n) == n + 1

SplitLimit(chunk, n) ==
    IF RFind(chunk, NL) # -1 THEN RFind(chunk, NL) + 1
    ELSE IF RFind(chunk, " ") # -1 THEN RFind(chunk, " ") + 1
    ELSE n

\* split(t, n) up to the while loop, or to its return for a short text
SplitBegin(t, n) ==
    /\ split_pc = "idle"
    /\ split_arg' = t
    /\ text' = t
    /\ chunk_size' = n
    /\ IF Len(t) <= n
       THEN chunks' = <<t>> /\ split_pc' = "returned"
       ELSE chunks' = <<>> /\ split_pc' = "loop"

\* TextSplitter.split(t, n) called on its own
SplitCall(t, n) ==
    /\ send_pc = "idle"
    /\ SplitBegin(t, n)
    /\ UNCHANGED <<engineVars, batchVars, directVars, handlerVars, sendVars>>

\* one test of "while text" and the iteration or the return that follows
SplitStep ==
    /\ split_pc = "loop"
    /\ IF text = <<>>
       THEN split_pc' = "returned" /\ UNCHANGED <<text, chunks>>
       ELSE IF Len(text) <= chunk_size
       THEN /\ chunks' = Append(chunks, text)
            /\ split_pc' = "returned"
            /\ UNCHANGED text
       ELSE LET limit == SplitLimit(Prefix(text, chunk_size), chunk_size)
            IN  /\ chunks' = Append(chunks, Prefix(text, limit))
                /\ text' = Suffix(text, limit)
                /\ UNCHANGED split_pc
    /\ UNCHANGED <<engineVars, batchVars, directVars, handlerVars, split_arg, chunk_size,
                   sendVars>>

\* ------------------------------------------- TelegramSender.send_text_safe
\* send_text_safe(chat_id, t) up to the while loop of split; n is the value
\* of MAX_MESSAGE_LENGTH
SendTextSafeCall(t, n) ==
    /\ send_pc = "idle"
    /\ SplitBegin(t, n)
    /\ send_pc' = "sending"
    /\ chunk_index' = 1
    /\ attempts' = <<>>
    /\ UNCHANGED <<engineVars, batchVars, directVars, handlerVars>>

Attempt(resend, outcome) ==
    [chunk |-> chunk_index, text |-> chunks[chunk_index], resend |-> resend,
     outcome |-> outcome]

\* the for loop goes to the next chunk, or ends and send_text_safe returns
NextChunk ==
    IF chunk_index < Len(chunks)
    THEN chunk_index' = chunk_index + 1 /\ send_pc' = "sending"
    ELSE send_pc' = "returned" /\ UNCHANGED chunk_index

\* await self.bot.send_message(chunk) in the try block, with what follows
\* it up to the next send_message await
SendMessage(outcome) ==
    /\ send_pc = "sending"
    /\ split_pc = "returned"
    /\ attempts' = Append(attempts, Attempt(FALSE, outcome))
    /\ IF outcome = "TelegramRetryAfter"
       THEN send_pc' = "resending" /\ UNCHANGED chunk_index
       ELSE NextChunk
    /\ UNCHANGED <<engineVars, batchVars, directVars, handlerVars, splitVars>>

\* await self.bot.send_message(chunk) in the except TelegramRetryAfter
\* block: what it raises is caught by no clause and leaves send_text_safe
Resend(outcome) ==
    /\ send_pc = "resending"
    /\ attempts' = Append(attempts, Attempt(TRUE, outcome))
    /\ IF outcome = "ok"
       THEN NextChunk
       ELSE send_pc' = "raised" /\ UNCHANGED chunk_index
    /\ UNCHANGED <<engineVars, batchVars, directVars, handlerVars, splitVars>>

\* ------------------------------------------------------------ specification
Init ==
    /\ CONCURRENCY_LIMIT \in 1..MaxCap
    /\ domain_cache = EmptyCache
    /\ cache_lock = Free
    /\ emails = [b \in Batches |-> <<>>]
    /\ tasks = [b \in Batches |-> <<>>]
    /\ listState = [b \in Batches |-> "idle"]
    /\ semaphore = [b \in Batches |-> 0]
    /\ pc = [b \in Batches |-> <<>>]
    /\ status = [b \in Batches |-> <<>>]
    /\ answer = [b \in Batches |-> <<>>]
    /\ finished = [b \in Batches |-> <<>>]
    /\ results = [b \in Batches |-> <<>>]
    /\ cachedAtStart = [b \in Batches |-> {}]
    /\ dpc = "idle"
    /\ dcur = <<>>
    /\ log = <<>>
    /\ request = [b \in Batches |-> NoRequest]
    /\ response = [b \in Batches |-> NoResponse]
    /\ split_pc = "idle"
    /\ split_arg = <<>>
    /\ text = <<>>
    /\ chunk_size = 1
    /\ chunks = <<>>
    /\ send_pc = "idle"
    /\ chunk_index = 1
    /\ attempts = <<>>

\* one check_list call
NextRun ==
    \/ StartCheckList("req1", BatchInputs)
    \/ \E i \in 1..MaxBatch : SemTaskEnter("req1", i)
    \/ \E i \in 1..MaxBatch : \E ans \in BatchAnswers : ResolverReturn("req1", i, ans)
    \/ GatherReturn("req1")

Next ==
    \/ NextRun
    \/ Cancel("req1")

Spec == Init /\ [][Next]_vars

\* two check_list calls of overlapping requests
NextOverlap ==
    \/ \E b \in Batches : StartCheckList(b, OverlapInputs)
    \/ \E b \in Batches : \E i \in 1..MaxOverlap : SemTaskEnter(b, i)
    \/ \E b \in Batches : \E i \in 1..MaxOverlap : \E ans \in BatchAnswers :
           ResolverReturn(b, i, ans)
    \/ \E b \in Batches : GatherReturn(b)
    \/ \E b \in Batches : Cancel(b)

SpecOverlap == Init /\ [][NextOverlap]_vars

\* one request handled by handle_check
NextApi ==
    \/ \E json \in JsonErrors \cup NonListValues : HandleCheckReject("req1", json)
    \/ HandleCheckList("req1", ApiInputs)
    \/ \E i \in 1..MaxBatch : SemTaskEnter("req1", i)
    \/ \E i \in 1..MaxBatch : SemTaskRaise("req1", i)
    \/ \E i \in 1..MaxBatch : \E ans \in BatchAnswers : ResolverReturn("req1", i, ans)
    \/ HandleCheckRespond("req1")
    \/ HandleCheckFail("req1")
    \/ Cancel("req1")

SpecApi == Init /\ [][NextApi]_vars

\* check_email called in sequence by one caller
NextSeq ==
    \/ \E raw \in DirectInputs : DirectCall(raw)
    \/ \E ans \in ResolverAnswers : DirectResolverReturn(ans)

\* check_email does not use the cap
InitSeq == Init /\ CONCURRENCY_LIMIT = 1

SpecSeq == InitSeq /\ [][NextSeq]_vars

\* one check_list call whose caller is never cancelled: the event loop runs
\* every task that can run, and every resolver query ends
Fairness ==
    /\ \A i \in 1..MaxBatch : WF_vars(SemTaskEnter("req1", i))
    /\ \A i \in 1..MaxBatch : WF_vars(\E ans \in BatchAnswers : ResolverReturn("req1", i, ans))
    /\ WF_vars(GatherReturn("req1"))

LiveSpec == Init /\ [][NextRun]_vars /\ Fairness

\* one check_list call in which the resolver never answers the query of the
\* first task and answers every other query
NextSlow ==
    \/ StartCheckList("req1", BatchInputs)
    \/ \E i \in 1..MaxBatch : SemTaskEnter("req1", i)
    \/ \E i \in 2..MaxBatch : \E ans \in BatchAnswers : ResolverReturn("req1", i, ans)
    \/ GatherReturn("req1")

FairnessSlow ==
    /\ \A i \in 1..MaxBatch : WF_vars(SemTaskEnter("req1", i))
    /\ \A i \in 2..MaxBatch : WF_vars(\E ans \in BatchAnswers : ResolverReturn("req1", i, ans))
    /\ WF_vars(GatherReturn("req1"))

LiveSlowSpec == Init /\ [][NextSlow]_vars /\ FairnessSlow

\* TextSplitter.split called once; the loop keeps running
NextSplit ==
    \/ \E t \in SplitTexts : \E n \in 1..MaxChunk : SplitCall(t, n)
    \/ SplitStep

SpecSplit == InitSeq /\ [][NextSplit]_vars /\ WF_vars(SplitStep)

\* send_text_safe called once
NextSend ==
    \/ \E t \in SendTexts : \E n \in 1..MaxChunk : SendTextSafeCall(t, n)
    \/ SplitStep
    \/ \E outcome \in SendOutcomes : SendMessage(outcome)
    \/ \E outcome \in SendOutcomes : Resend(outcome)

SpecSend == InitSeq /\ [][NextSend]_vars

\* ================================================================== claims
TaskDomain(b, i) == ExtractDomain(Strip(TaskEmail(b, i)))

TaskValid(b, i) == EmailRegexMatch(Strip(TaskEmail(b, i)))

InFlight(b) == Cardinality({i \in Tasks(b) : pc[b][i] = "resolving"})

Queried(b, i) == pc[b][i] = "resolving" \/ answer[b][i] \in ResolverAnswers \cup {Cancelled}

\* C1: in a batch of more addresses than the cap, at most cap tasks are inside
\* the resolver call at once, and while cap of them are, no waiting task is
\* admitted.
C1_CapWithinBatch ==
    Len(pc["req1"]) > CONCURRENCY_LIMIT =>
        /\ InFlight("req1") <= CONCURRENCY_LIMIT
        /\ InFlight("req1") = CONCURRENCY_LIMIT =>
               \A i \in Tasks("req1") : ~ENABLED SemTaskEnter("req1", i)

C1_Witness ==
    /\ Len(pc["req1"]) > CONCURRENCY_LIMIT
    /\ InFlight("req1") = CONCURRENCY_LIMIT
    /\ \E i \in Tasks("req1") : pc["req1"][i] = "wait" /\ TaskValid("req1", i)

\* the tasks of batch b whose address has the parsed domain d
SameDomain(b, d) == {i \in Tasks(b) : TaskValid(b, i) /\ TaskDomain(b, i) = d}

BatchDomains(b) == {TaskDomain(b, i) : i \in {k \in Tasks(b) : TaskValid(b, k)}}

\* C2: when a returned batch has two or more addresses of one domain that
\* was not cached when the batch started and that the resolver answers with
\* records, all of them are Valid and the resolver was queried exactly once
\* for the domain.
C2_OneQueryPerDomain ==
    \A d \in BatchDomains("req1") :
        ( /\ listState["req1"] = "returned"
          /\ Cardinality(SameDomain("req1", d)) >= 2
          /\ d \notin cachedAtStart["req1"]
          /\ IdnaEncode(d) # IdnaFailure
          /\ \A i \in SameDomain("req1", d) :
                 answer["req1"][i] \in ResolverAnswers => answer["req1"][i] = "records" )
        => /\ \A i \in SameDomain("req1", d) : status["req1"][i] = MSG_VALID
           /\ Cardinality({i \in SameDomain("req1", d) : Queried("req1", i)}) = 1

\* C3: a cache entry, once written, is never removed and never changes.
C3_CacheEntryFinal ==
    [][\A d \in DOMAIN domain_cache :
           d \in DOMAIN domain_cache' /\ domain_cache'[d] = domain_cache[d]]_vars

\* C4: over all check_list calls running on the one verifier, at most cap
\* resolver calls are outstanding.
C4_CapAcrossBatches ==
    InFlight("req1") + InFlight("req2") <= CONCURRENCY_LIMIT

\* C5: a check_email call made after a completed call for the same address
\* returns the same status and makes no resolver call.
C5_SecondCallFromCache ==
    /\ \A k \in DOMAIN log : \A j \in DOMAIN log :
           (k < j /\ log[k].raw = log[j].raw) =>
               /\ log[j].status = log[k].status
               /\ log[j].answer \notin ResolverAnswers
    /\ dpc = "resolving" => \A k \in DOMAIN log : log[k].raw # dcur[1]

C5_Witness ==
    /\ Len(log) = 2
    /\ log[1].raw = log[2].raw
    /\ log[1].answer = "Timeout"
    /\ log[2].status = MSG_TIMEOUT

\* the number of "@" in s
CountAt(s) == Cardinality({k \in 1..Len(s) : s[k] = "@"})

\* the failures the syntactic predicate is said to reject: no "@", more than
\* one "@", whitespace, an empty local or domain part, no "." in the domain
ListedFailure(s) ==
    \/ CountAt(s) # 1
    \/ \E k \in 1..Len(s) : IsSpace(s[k])
    \/ s[1] = "@"
    \/ s[Len(s)] = "@"
    \/ \A k \in 1..Len(s) : (\E a \in 1..(k - 1) : s[a] = "@") => s[k] # "."

\* C6: a check_email call for an address that fails the syntactic predicate
\* after trimming returns InvalidFormat without a lock acquisition, a cache
\* read or write, or a resolver call.
C6_InvalidFormatTouchesNothing ==
    \A k \in DOMAIN log :
        ListedFailure(Strip(log[k].raw)) =>
            /\ log[k].status = MSG_INVALID_FORMAT
            /\ log[k].locks = 0
            /\ log[k].reads = 0
            /\ log[k].writes = 0
            /\ log[k].answer = NoAnswerYet

C6_Witness ==
    \E k \in DOMAIN log :
        /\ CountAt(log[k].raw) = 1
        /\ Strip(log[k].raw) # log[k].raw
        /\ ListedFailure(Strip(log[k].raw))
        /\ log[k].status = MSG_INVALID_FORMAT
        /\ domain_cache # EmptyCache

\* the position in es of its i-th non-empty string
NthNonEmpty(es, i) ==
    CHOOSE p \in 1..Len(es) :
        es[p] # <<>> /\ Cardinality({q \in 1..p : es[q] # <<>>}) = i

NonEmptyCount(es) == Cardinality({q \in 1..Len(es) : es[q] # <<>>})

\* C7: check_list returns only when every task is done, with one result per
\* non-empty input string, the i-th result being that of the i-th non-empty
\* input, whatever the order the tasks finished in.
C7_ResultsInInputOrder ==
    listState["req1"] = "returned" =>
        /\ \A i \in Tasks("req1") : pc["req1"][i] = "done"
        /\ Len(results["req1"]) = NonEmptyCount(emails["req1"])
        /\ \A i \in 1..Len(results["req1"]) :
               /\ results["req1"][i].email =
                      Strip(emails["req1"][NthNonEmpty(emails["req1"], i)])
               /\ results["req1"][i].status = status["req1"][i]
               /\ results["req1"][i].status # NoStatus

C7_Witness ==
    /\ listState["req1"] = "returned"
    /\ \E p \in 1..Len(emails["req1"]) : emails["req1"][p] = <<>>
    /\ Len(results["req1"]) = 2
    /\ finished["req1"] = <<2, 1>>
    /\ results["req1"][1] # results["req1"][2]

\* C8: the resolver step maps every resolver answer to a status: records to
\* Valid, an empty answer to NoMx, NXDOMAIN to NoDomain, NoAnswer and
\* NoNameservers to NoMx, a timeout to Timeout, any other failure to NoMx.
C8_ResolverStepTotal ==
    \A k \in DOMAIN log :
        /\ log[k].answer = "records" => log[k].status = MSG_VALID
        /\ log[k].answer = "empty" => log[k].status = MSG_NO_MX
        /\ log[k].answer = "NXDOMAIN" => log[k].status = MSG_NO_DOMAIN
        /\ log[k].answer = "NoAnswer" => log[k].status = MSG_NO_MX
        /\ log[k].answer = "NoNameservers" => log[k].status = MSG_NO_MX
        /\ log[k].answer = "Timeout" => log[k].status = MSG_TIMEOUT
        /\ log[k].answer = "OtherError" => log[k].status = MSG_NO_MX
        /\ log[k].status \in DomainStatuses \cup {MSG_INVALID_FORMAT}

C8_Witness ==
    /\ Len(log) = 2
    /\ log[1].answer = "OtherError"
    /\ log[1].status = MSG_NO_MX
    /\ log[2].answer = "records"
    /\ log[2].status = MSG_VALID

\* C9: a running check_list call eventually returns, for every cap from 1 up.
C9_BatchCompletes ==
    (listState["req1"] = "running") ~> (listState["req1"] = "returned")

C9_Witness ==
    /\ CONCURRENCY_LIMIT = 1
    /\ listState["req1"] = "returned"
    /\ Cardinality({i \in Tasks("req1") : answer["req1"][i] \in ResolverAnswers}) >= 2

\* C10: once the batch is cancelled no task of it waits, its semaphore has
\* every slot free, the cache lock is free, and every cache entry is a status
\* written by a task that reached its write step.
C10_CancelReleases ==
    listState["req1"] = "cancelled" =>
        /\ \A i \in Tasks("req1") : pc["req1"][i] \in {"done", "cancelled"}
        /\ semaphore["req1"] = CONCURRENCY_LIMIT
        /\ cache_lock = Free
        /\ \A i \in Tasks("req1") : pc["req1"][i] = "cancelled" => status["req1"][i] = NoStatus
        /\ \A d \in DOMAIN domain_cache :
               /\ domain_cache[d] \in DomainStatuses
               /\ \E i \in SameDomain("req1", d) :
                      /\ pc["req1"][i] = "done"
                      /\ answer["req1"][i] \in ResolverAnswers \cup {IdnaError}
                      /\ status["req1"][i] = domain_cache[d]

C10_Witness ==
    /\ listState["req1"] = "cancelled"
    /\ \E i \in Tasks("req1") : answer["req1"][i] = Cancelled
    /\ domain_cache # EmptyCache

\* the five statuses a result carries
Statuses == DomainStatuses \cup {MSG_INVALID_FORMAT}

\* C11: when handle_check answers with the mapping, every non-empty string of
\* the posted list is a key of it, exactly as posted, with one of the five
\* statuses.
C11_OriginalAddressKeys ==
    response["req1"].status = 200 =>
        \A p \in 1..Len(emails["req1"]) :
            emails["req1"][p] # <<>> =>
                /\ emails["req1"][p] \in DOMAIN response["req1"].data
                /\ response["req1"].data[emails["req1"][p]] \in Statuses

\* C12: handle_check answers 400 without a check_list call when the body is
\* JSON but not a list, 400 when the body is not JSON, 500 on any other
\* failure, one raised inside check_list included, and otherwise the
\* address-to-status mapping of the results of its one check_list call.
C12_HandlerAnswers ==
    /\ request["req1"] = NoRequest =>
           response["req1"] = NoResponse
    /\ request["req1"] \in NonListValues \cup {"JSONDecodeError"} =>
           /\ response["req1"].status = 400
           /\ listState["req1"] = "idle"
           /\ pc["req1"] = <<>>
    /\ request["req1"] = "OtherError" =>
           /\ response["req1"].status = 500
           /\ listState["req1"] = "idle"
    /\ request["req1"] = "list" =>
           /\ listState["req1"] # "idle"
           /\ listState["req1"] \in {"running", "cancelled"} => response["req1"] = NoResponse
           /\ listState["req1"] = "failed" => response["req1"].status = 500
           /\ listState["req1"] = "returned" =>
                  /\ response["req1"].status = 200
                  /\ DOMAIN response["req1"].data =
                         {results["req1"][k].email : k \in DOMAIN results["req1"]}
                  /\ \A k \in DOMAIN results["req1"] :
                         (\A m \in DOMAIN results["req1"] :
                              results["req1"][m].email = results["req1"][k].email => m <= k)
                         => response["req1"].data[results["req1"][k].email] =
                                results["req1"][k].status

C12_Witness ==
    /\ listState["req1"] = "failed"
    /\ response["req1"].status = 500
    /\ \E i \in Tasks("req1") : pc["req1"][i] = "done" /\ status["req1"][i] = MSG_TIMEOUT

\* C13: while a task's resolver call is in progress the cache lock is free:
\* no task holds it, another task can take it for its cache read, and the
\* task itself can take it for its cache write when the resolver answers.
C13_LockFreeDuringQuery ==
    \A i \in Tasks("req1") :
        pc["req1"][i] = "resolving" =>
            /\ cache_lock = Free
            /\ ENABLED ResolverReturn("req1", i, "records")
            /\ \A j \in Tasks("req1") :
                   (pc["req1"][j] = "wait" /\ SlotFree("req1")) =>
                       ENABLED SemTaskEnter("req1", j)

C13_Witness ==
    /\ InFlight("req1") = 2
    /\ tasks["req1"][1].domain = tasks["req1"][2].domain
    /\ cache_lock = Free

\* C14: when the batch has returned, the results of all addresses of one
\* parsed domain carry the same status, the one the cache holds for the
\* domain, whatever the resolver answered to each query.
C14_SameDomainSameStatus ==
    listState["req1"] = "returned" =>
        \A d \in BatchDomains("req1") :
            /\ d \in DOMAIN domain_cache
            /\ \A i \in SameDomain("req1", d) :
                   results["req1"][i].status = domain_cache[d]

\* the domain d has an empty label before its last one, which the IDNA
\* encoding refuses
EmptyLabel(d) == \E k \in 1..Len(d) : d[k] = "." /\ (k = 1 \/ d[k - 1] = ".")

LogDomain(k) == ExtractDomain(Strip(log[k].raw))

\* C15: a check_email call for a well-formed address whose domain fails the
\* IDNA encoding returns NoDomain without a resolver query and leaves
\* NoDomain in the cache under the parsed domain; the first such call is a
\* miss that encodes and writes, every later one a hit that only reads.
C15_IdnaFailureCached ==
    /\ \A k \in DOMAIN log :
           (EmailRegexMatch(Strip(log[k].raw)) /\ EmptyLabel(LogDomain(k))) =>
               /\ log[k].status = MSG_NO_DOMAIN
               /\ LogDomain(k) \in DOMAIN domain_cache
               /\ domain_cache[LogDomain(k)] = MSG_NO_DOMAIN
               /\ IF \E j \in 1..(k - 1) : LogDomain(j) = LogDomain(k)
                  THEN /\ log[k].answer = NoAnswerYet
                       /\ log[k].reads = 1
                       /\ log[k].writes = 0
                  ELSE /\ log[k].answer = IdnaError
                       /\ log[k].reads = 1
                       /\ log[k].writes = 1
    /\ dpc = "resolving" => ~EmptyLabel(ExtractDomain(Strip(dcur[1])))

C15_Witness ==
    /\ Len(log) = 2
    /\ log[1].answer = IdnaError
    /\ log[2].answer = NoAnswerYet
    /\ log[2].status = MSG_NO_DOMAIN
    /\ log[2].writes = 0

\* task j is scheduled, not started, and for another domain than task 1,
\* whose resolver call is pending, and fewer than cap tasks are in flight
BehindSlowCall(j) ==
    /\ j \in Tasks("req1")
    /\ pc["req1"][1] = "resolving"
    /\ pc["req1"][j] = "wait"
    /\ tasks["req1"][j].matches
    /\ tasks["req1"][j].domain # tasks["req1"][1].domain
    /\ InFlight("req1") < CONCURRENCY_LIMIT

\* task j has been admitted and has done its cache read, and is in its
\* resolver call or past it, while the call of task 1 is still pending
PastSlowCall(j) ==
    /\ j \in Tasks("req1")
    /\ pc["req1"][1] = "resolving"
    /\ pc["req1"][j] \in {"resolving", "done"}
    /\ status["req1"][j] \in DomainStatuses \cup {NoStatus}

\* C16: with the resolver call of one task pending for ever and the other
\* calls answered, a task for another domain that has not started while
\* fewer than cap tasks are in flight is eventually admitted, while the slow
\* call is still pending.
C16_SlowCallDoesNotBlock ==
    \A j \in 2..MaxBatch : BehindSlowCall(j) ~> PastSlowCall(j)

C16_Witness ==
    /\ Len(pc["req1"]) = 2
    /\ pc["req1"][1] = "resolving"
    /\ pc["req1"][2] = "resolving"
    /\ tasks["req1"][2].domain # tasks["req1"][1].domain

\* the upper-case letters among the characters of the addresses
IsUpper(c) == c \in {"X", "B"}

\* d is what follows the "@" of e, but for the case of its letters
DomainOf(d, e) ==
    \E at \in 1..Len(e) :
        /\ e[at] = "@"
        /\ Len(d) = Len(e) - at
        /\ \A k \in 1..Len(d) :
               \/ d[k] = e[at + k]
               \/ <<d[k], e[at + k]>> \in {<<"x", "X">>, <<"b", "B">>}

\* C17: the cache holds only Valid, NoDomain, NoMx and Timeout, under keys
\* without upper-case letters that are the domain of a checked address that
\* matched the regex after trimming; a call returns InvalidFormat only for
\* an address that does not match it.
C17_CacheWellFormed ==
    /\ \A d \in DOMAIN domain_cache :
           /\ domain_cache[d] \in {MSG_VALID, MSG_NO_DOMAIN, MSG_NO_MX, MSG_TIMEOUT}
           /\ domain_cache[d] # MSG_INVALID_FORMAT
           /\ \A k \in 1..Len(d) : ~IsUpper(d[k])
           /\ \E k \in DOMAIN log :
                  /\ EmailRegexMatch(Strip(log[k].raw))
                  /\ DomainOf(d, Strip(log[k].raw))
    /\ \A k \in DOMAIN log :
           log[k].status = MSG_INVALID_FORMAT <=> ~EmailRegexMatch(Strip(log[k].raw))

C17_Witness ==
    /\ Len(log) = 2
    /\ log[1].raw = ADDR_B_X
    /\ log[1].status = MSG_NO_MX
    /\ DOMAIN domain_cache = {<<"x", ".", "c">>}
    /\ log[2].status = MSG_INVALID_FORMAT

RECURSIVE Concat(_)
Concat(cs) == IF cs = <<>> THEN <<>> ELSE Head(cs) \o Concat(Tail(cs))

\* what split returns: chunks that make up the text, none longer than
\* chunk_size, and none empty when the text is longer than chunk_size
C18_SplitSound ==
    split_pc = "returned" =>
        /\ Concat(chunks) = split_arg
        /\ \A k \in DOMAIN chunks : Len(chunks[k]) <= chunk_size
        /\ Len(split_arg) > chunk_size => \A k \in DOMAIN chunks : chunks[k] # <<>>

\* C18: for every text and every chunk_size from 1 up, split terminates, and
\* the chunks it returns are sound.
C18_SplitTotal ==
    /\ []C18_SplitSound
    /\ (split_pc = "loop") ~> (split_pc = "returned")

C18_Witness ==
    /\ split_pc = "returned"
    /\ Len(chunks) = 3
    /\ Len(chunks[1]) < chunk_size
    /\ Len(chunks[2]) = chunk_size
    /\ \E k \in 1..Len(split_arg) : split_arg[k] = NL

\* C19: send_text_safe attempts the chunks in order and no failure of a
\* send_message call, the re-send after TelegramRetryAfter included, leaves
\* send_text_safe or keeps a later chunk from being attempted: it never
\* raises, and once it has returned every chunk has been attempted.
C19_SendNeverRaises ==
    /\ send_pc # "raised"
    /\ \A a \in DOMAIN attempts : \A c \in DOMAIN attempts :
           a < c => attempts[a].chunk <= attempts[c].chunk
    /\ send_pc = "returned" =>
           \A k \in DOMAIN chunks : \E a \in DOMAIN attempts :
               attempts[a].chunk = k /\ attempts[a].text = chunks[k]

====
